---------------------------- MODULE Spec2Model ----------------------------
(***************************************************************************)
(* Model of the ledger engine of toy_payments (src/src/main.rs).           *)
(*                                                                         *)
(* Engine::process_transactions receives the whole slice of decoded        *)
(* records and walks it once, front to back.  The slice is the variable    *)
(* transactions, fixed by Init; pc is the position of the for loop; one    *)
(* action models one iteration of the loop (get-or-create of the account   *)
(* followed by the arm of the match on tr.kind).                           *)
(*                                                                         *)
(* Spec is the engine alone, entered the way the unit tests enter it;      *)
(* MainSpec is a whole run of main(): argument check, read_csv, the        *)
(* engine, get_accounts and write_accounts, ending in an exit status.      *)
(*                                                                         *)
(* Amounts are exact integers (a count of 0.0001 units); the rounding of   *)
(* f32 is outside the model.  Sequences are 1-based, so the index that     *)
(* Iterator::position returns as Some(k) is k + 1 here and None is 0.      *)
(***************************************************************************)
EXTENDS Integers, Sequences, FiniteSets, TLC

\* ------------------------------------------------------------------ bounds
MaxLen == 3
MaxAmount == 2
\* rows of an input file in MainSpec
MaxRows == 2

\* --------------------------------------------------------------- data model
\* Identifiers are only ever compared for equality (HashMap keys, the closure
\* of position), so two of each give "the same" and "another one".
ClientIDs == {1, 2}
TransactionIDs == {1, 2}
Amounts == 1..MaxAmount

\* The five strings TransactionType::from_str accepts.
MonetaryKinds == {"deposit", "withdrawal"}
LifecycleKinds == {"dispute", "resolve", "chargeback"}
TransactionType == MonetaryKinds \cup LifecycleKinds

\* struct Transaction.  Deposit and Withdrawal rows carry an amount; the
\* dispute-lifecycle rows carry f32::default() = 0, as the tests build them.
Transaction ==
    [kind : MonetaryKinds, client_id : ClientIDs,
     transaction_id : TransactionIDs, amount : Amounts]
    \cup
    [kind : LifecycleKinds, client_id : ClientIDs,
     transaction_id : TransactionIDs, amount : {0}]

\* Account { client_id, ..Default::default() }
NewAccount(c) ==
    [client_id |-> c, available |-> 0, held |-> 0, total |-> 0, locked |-> FALSE]

VARIABLES
    transactions,               \* the slice handed to process_transactions
    pc,                         \* position of `for tr in transactions`
    client_account,             \* Engine.client_account
    transaction_under_dispute,  \* keys of Engine.transaction_under_dispute
    result,                     \* "running", "Ok" or "Err"
    err_client,                 \* client id named by the Err message, 0 if none
    branch,                     \* arm of the loop body taken by the last iteration
    argc,                       \* std::env::args().len()
    file,                       \* what the path given on the command line holds
    stage,                      \* where main() is
    exit_status,                \* status the process ended with, -1 while it runs
    message,                    \* category prefix main() printed, "none" if none
    accounts,                   \* Vec returned by get_accounts
    rows                        \* account rows written to stdout

\* the variables of main() around the engine
mainvars == <<argc, file, stage, exit_status, message, accounts, rows>>

vars == <<transactions, pc, client_account, transaction_under_dispute,
          result, err_client, branch, mainvars>>

\* ------------------------------------------------------------------ helpers

\* self.client_account.entry(id).or_insert_with(|| Account {..})
entry(ca, c) ==
    IF c \in DOMAIN ca THEN ca ELSE ca @@ (c :> NewAccount(c))

\* transactions.iter().position(|t| t.transaction_id == id), shifted by one;
\* 0 is None.  The scan covers the whole slice and every kind of record.
position(txs, id) ==
    LET hits == {k \in 1..Len(txs) : txs[k].transaction_id = id}
    IN  IF hits = {} THEN 0 ELSE CHOOSE k \in hits : \A j \in hits : k <= j

\* Variant: the registry is never consulted.
under_dispute_unchecked(tud, idx) == TRUE

\* self.transaction_under_dispute.get(&idx) is Some(_)
under_dispute(tud, idx) == idx \in tud

\* Variant: the check reads total, so held funds count as spendable.
InsufficientTotal(account, amount) == account.total < amount

\* Variant: the comparison is not strict, so the whole balance cannot leave.
InsufficientOrEqual(account, amount) == account.available <= amount

\* account.available < tr.amount
InsufficientAvailable(account, amount) == account.available < amount

\* Variant: a locked account takes no more deposits.
DepositApplyUnlessLocked(account, amount) ==
    IF account.locked THEN account
    ELSE [account EXCEPT !.available = @ + amount, !.total = @ + amount]

\* Variant: the deposit forgets total.
DepositApplyOnlyAvailable(account, amount) ==
    [account EXCEPT !.available = @ + amount]

\* Deposit arm
DepositApply(account, amount) ==
    [account EXCEPT !.available = @ + amount, !.total = @ + amount]

\* Withdrawal arm, after the check
WithdrawalApply(account, amount) ==
    [account EXCEPT !.available = @ - amount, !.total = @ - amount]

\* Variant: opening a dispute already freezes the account.
DisputeApplyLocks(account, amount) ==
    [account EXCEPT !.available = @ - amount, !.held = @ + amount, !.locked = TRUE]

\* Dispute arm
DisputeApply(account, amount) ==
    [account EXCEPT !.available = @ - amount, !.held = @ + amount]

\* Variant: the resolve gives the funds back without releasing the hold.
ResolveApplyKeepsHeld(account, amount) ==
    [account EXCEPT !.available = @ + amount]

\* Resolve arm
ResolveApply(account, amount) ==
    [account EXCEPT !.available = @ + amount, !.held = @ - amount]

\* Variant: the chargeback takes the held funds and forgets total.
ChargebackApplyKeepsTotal(account, amount) ==
    [account EXCEPT !.held = @ - amount, !.locked = TRUE]

\* Variant: the chargeback does not lock the account.
ChargebackApplyNoLock(account, amount) ==
    [account EXCEPT !.held = @ - amount, !.total = @ - amount]

\* Chargeback arm
ChargebackApply(account, amount) ==
    [account EXCEPT !.held = @ - amount, !.total = @ - amount, !.locked = TRUE]

\* ------------------------------------------------------------------- state
Init ==
    /\ transactions \in [1..MaxLen -> Transaction]
    /\ pc = 1
    /\ client_account = <<>>
    /\ transaction_under_dispute = {}
    /\ result = "running"
    /\ err_client = 0
    /\ branch = "none"
    /\ argc = 0
    /\ file = [readable |-> FALSE, rows |-> <<>>]
    /\ stage = "engine"
    /\ exit_status = -1
    /\ message = "none"
    /\ accounts = <<>>
    /\ rows = <<>>

\* The loop is inside its body for record pc.
InLoop == result = "running" /\ pc <= Len(transactions)

tr == transactions[pc]

\* The loop moves on to the next record.
Advance(ca, tud, b) ==
    /\ client_account' = ca
    /\ transaction_under_dispute' = tud
    /\ branch' = b
    /\ pc' = pc + 1
    /\ UNCHANGED <<transactions, result, err_client, mainvars>>

Deposit ==
    /\ InLoop
    /\ tr.kind = "deposit"
    /\ LET ca == entry(client_account, tr.client_id)
       IN  Advance([ca EXCEPT ![tr.client_id] = DepositApply(@, tr.amount)],
                   transaction_under_dispute, "deposit")

Withdrawal ==
    /\ InLoop
    /\ tr.kind = "withdrawal"
    /\ LET ca == entry(client_account, tr.client_id)
       IN  IF InsufficientAvailable(ca[tr.client_id], tr.amount)
           THEN /\ client_account' = ca
                /\ result' = "Err"
                /\ err_client' = ca[tr.client_id].client_id
                /\ branch' = "insufficient"
                /\ UNCHANGED <<transactions, pc, transaction_under_dispute, mainvars>>
           ELSE Advance([ca EXCEPT ![tr.client_id] = WithdrawalApply(@, tr.amount)],
                        transaction_under_dispute, "withdrawal")

\* Variant: the Dispute holds the funds of the client who made the referenced
\* transaction instead of the client named on the Dispute record.
DisputeChargesOwner ==
    /\ InLoop
    /\ tr.kind = "dispute"
    /\ LET idx == position(transactions, tr.transaction_id)
           owner == transactions[idx].client_id
           ca == entry(entry(client_account, tr.client_id), owner)
       IN  Advance([ca EXCEPT ![owner] = DisputeApply(@, transactions[idx].amount)],
                   transaction_under_dispute \cup {idx}, "dispute")

Dispute ==
    /\ InLoop
    /\ tr.kind = "dispute"
    /\ LET ca == entry(client_account, tr.client_id)
           idx == position(transactions, tr.transaction_id)
       IN  IF idx = 0
           THEN Advance(ca, transaction_under_dispute, "dispute_none")
           ELSE Advance([ca EXCEPT ![tr.client_id] =
                             DisputeApply(@, transactions[idx].amount)],
                        transaction_under_dispute \cup {idx}, "dispute")

Resolve ==
    /\ InLoop
    /\ tr.kind = "resolve"
    /\ LET ca == entry(client_account, tr.client_id)
           idx == position(transactions, tr.transaction_id)
       IN  IF idx = 0
           THEN Advance(ca, transaction_under_dispute, "resolve_none")
           ELSE IF ~under_dispute(transaction_under_dispute, idx)
           THEN Advance(ca, transaction_under_dispute, "resolve_skip")
           ELSE Advance([ca EXCEPT ![tr.client_id] =
                             ResolveApply(@, transactions[idx].amount)],
                        transaction_under_dispute \ {idx}, "resolve")

Chargeback ==
    /\ InLoop
    /\ tr.kind = "chargeback"
    /\ LET ca == entry(client_account, tr.client_id)
           idx == position(transactions, tr.transaction_id)
       IN  IF idx = 0
           THEN Advance(ca, transaction_under_dispute, "chargeback_none")
           ELSE IF ~under_dispute(transaction_under_dispute, idx)
           THEN Advance(ca, transaction_under_dispute, "chargeback_skip")
           ELSE Advance([ca EXCEPT ![tr.client_id] =
                             ChargebackApply(@, transactions[idx].amount)],
                        transaction_under_dispute \ {idx}, "chargeback")

\* The loop is exhausted: Ok(())
ReturnOk ==
    /\ result = "running"
    /\ pc > Len(transactions)
    /\ result' = "Ok"
    /\ UNCHANGED <<transactions, pc, client_account, transaction_under_dispute,
                   err_client, branch, mainvars>>

Next ==
    \/ Deposit
    \/ Withdrawal
    \/ Dispute
    \/ Resolve
    \/ Chargeback
    \/ ReturnOk

Spec == Init /\ [][Next]_vars

\* ------------------------------------------------------------------- main()

\* process::exit codes of main(); 101 is what a Rust panic ends the process with.
ExitArgs == 1
ExitInput == 2
ExitProcess == 3
ExitWrite == 4
ExitPanic == 101

\* let precision = 4
precision == 4

\* A kind string that TransactionType::from_str does not accept.
UnknownKinds == {"transfer"}

\* One data row of the input file.  A well-formed row has the four fields
\* of the shape (String, u16, u32, f32) that serde asks for; the kind is any
\* string.  A row that is not of that shape is one value, it never decodes.
Row ==
    [wellformed : {TRUE}, kind : MonetaryKinds, client_id : ClientIDs,
     transaction_id : TransactionIDs, amount : Amounts]
    \cup
    [wellformed : {TRUE}, kind : LifecycleKinds \cup UnknownKinds,
     client_id : ClientIDs, transaction_id : TransactionIDs, amount : {0}]
    \cup
    [wellformed : {FALSE}, kind : {"deposit"}, client_id : {1},
     transaction_id : {1}, amount : {0}]

\* What the path names: nothing readable, or a header and up to MaxRows rows.
File ==
    {[readable |-> FALSE, rows |-> <<>>]}
    \cup
    {[readable |-> TRUE, rows |-> r] :
        r \in UNION {[1..n -> Row] : n \in 0..MaxRows}}

\* Variant: rows that do not decode are dropped instead of failing the read.
read_csv_lenient(f) ==
    IF ~f.readable
    THEN [ok |-> FALSE, transactions |-> <<>>]
    ELSE LET Good(r) == r.wellformed
             kept == SelectSeq(f.rows, Good)
         IN  [ok |-> TRUE,
              transactions |->
                 [i \in 1..Len(kept) |->
                     [kind |-> kept[i].kind, client_id |-> kept[i].client_id,
                      transaction_id |-> kept[i].transaction_id,
                      amount |-> kept[i].amount]]]

\* read_csv: Err when the file cannot be read or a row does not deserialize,
\* else the rows as Transaction values, in file order.
read_csv(f) ==
    IF ~f.readable \/ \E i \in 1..Len(f.rows) : ~f.rows[i].wellformed
    THEN [ok |-> FALSE, transactions |-> <<>>]
    ELSE [ok |-> TRUE,
          transactions |->
             [i \in 1..Len(f.rows) |->
                 [kind |-> f.rows[i].kind, client_id |-> f.rows[i].client_id,
                  transaction_id |-> f.rows[i].transaction_id,
                  amount |-> f.rows[i].amount]]]

\* The orders in which iterating a HashMap with key set S can yield its
\* entries: the order is unspecified and RandomState seeds it per process.
IterOrders(S) ==
    {o \in [1..Cardinality(S) -> S] :
        \A i, j \in 1..Cardinality(S) : o[i] = o[j] => i = j}

\* An account that ever held money or was locked.
Active(a) == a.total # 0 \/ a.available # 0 \/ a.held # 0 \/ a.locked

\* Variant: accounts that never held money are left out.
get_accounts_active(ca, order) ==
    SelectSeq([i \in 1..Len(order) |-> ca[order[i]]], Active)

\* self.client_account.iter().map(|a| a.1).collect(), iterated in `order`
get_accounts(ca, order) == [i \in 1..Len(order) |-> ca[order[i]]]

\* four_precision_number_format::serialize: format!("{number:.4}"), the text
\* given as sign, integer digits and the four digits after the point.
four_precision_number_format(n) ==
    LET scale == 10 ^ precision
        abs == IF n < 0 THEN 0 - n ELSE n
    IN  [minus |-> n < 0, whole |-> abs \div scale, frac |-> abs % scale]

\* writer.serialize(a): one row client,available,held,total,locked
serialize(a) ==
    [client |-> a.client_id,
     available |-> four_precision_number_format(a.available),
     held |-> four_precision_number_format(a.held),
     total |-> four_precision_number_format(a.total),
     locked |-> a.locked]

MainInit ==
    /\ argc \in {1, 2, 3}
    /\ file \in File
    /\ stage = "main"
    /\ exit_status = -1
    /\ message = "none"
    /\ accounts = <<>>
    /\ rows = <<>>
    /\ transactions = <<>>
    /\ pc = 1
    /\ client_account = <<>>
    /\ transaction_under_dispute = {}
    /\ result = "idle"
    /\ err_client = 0
    /\ branch = "none"

\* println!(prefix); process::exit(status)
Exit(status, prefix) ==
    /\ exit_status' = status
    /\ message' = prefix
    /\ stage' = "exit"

\* if args.len() != 2 { println!("input error: ..."); process::exit(1) }
CheckArgs ==
    /\ stage = "main"
    /\ IF argc # 2
       THEN Exit(ExitArgs, "input error")
       ELSE /\ stage' = "read"
            /\ UNCHANGED <<exit_status, message>>
    /\ UNCHANGED <<transactions, pc, client_account, transaction_under_dispute,
                   result, err_client, branch, argc, file, accounts, rows>>

\* match read_csv(path): Err => exit(2); Ok => Engine::default() and the
\* call of process_transactions
ReadCsv ==
    /\ stage = "read"
    /\ LET r == read_csv(file)
       IN  IF ~r.ok
           THEN /\ Exit(ExitInput, "input error")
                /\ UNCHANGED <<transactions, result>>
           ELSE /\ transactions' = r.transactions
                /\ result' = "running"
                /\ stage' = "process"
                /\ UNCHANGED <<exit_status, message>>
    /\ UNCHANGED <<pc, client_account, transaction_under_dispute, err_client,
                   branch, argc, file, accounts, rows>>

\* tr.kind.parse().unwrap() on a kind from_str rejects: the account of the
\* record is already created, the thread panics, nothing is printed by main.
UnwrapPanic ==
    /\ InLoop
    /\ tr.kind \notin TransactionType
    /\ client_account' = entry(client_account, tr.client_id)
    /\ result' = "Panic"
    /\ branch' = "panic"
    /\ exit_status' = ExitPanic
    /\ stage' = "exit"
    /\ UNCHANGED <<transactions, pc, transaction_under_dispute, err_client,
                   argc, file, message, accounts, rows>>

\* Err(e) => { println!("process error: {}", e); process::exit(3) }
ProcessError ==
    /\ stage = "process"
    /\ result = "Err"
    /\ Exit(ExitProcess, "process error")
    /\ UNCHANGED <<transactions, pc, client_account, transaction_under_dispute,
                   result, err_client, branch, argc, file, accounts, rows>>

\* engine.get_accounts() after Ok(())
GetAccounts ==
    /\ stage = "process"
    /\ result = "Ok"
    /\ \E order \in IterOrders(DOMAIN client_account) :
          accounts' = get_accounts(client_account, order)
    /\ stage' = "write"
    /\ UNCHANGED <<transactions, pc, client_account, transaction_under_dispute,
                   result, err_client, branch, argc, file, exit_status, message,
                   rows>>

\* write_accounts(&accounts, &mut stdout): every row in order and Ok, or a
\* failure of the sink after some of the rows; then main's match on it.
WriteAccounts ==
    /\ stage = "write"
    /\ \E n \in 0..Len(accounts), failed \in BOOLEAN :
          /\ ~failed => n = Len(accounts)
          /\ rows' = [i \in 1..n |-> serialize(accounts[i])]
          /\ IF failed
             THEN Exit(ExitWrite, "writing error")
             ELSE /\ exit_status' = 0
                  /\ stage' = "exit"
                  /\ UNCHANGED message
    /\ UNCHANGED <<transactions, pc, client_account, transaction_under_dispute,
                   result, err_client, branch, argc, file, accounts>>

MainNext ==
    \/ CheckArgs
    \/ ReadCsv
    \/ Next
    \/ UnwrapPanic
    \/ ProcessError
    \/ GetAccounts
    \/ WriteAccounts

MainSpec == MainInit /\ [][MainNext]_vars


\* ------------------------------------------------- vocabulary of the claims

\* The account of client c as an observer sees it: a client the engine has
\* not met yet has no account, which reads as zero balances, not locked.
Acct(ca, c) == IF c \in DOMAIN ca THEN ca[c] ELSE NewAccount(c)

\* The loop body is about to run on a record of kind k.
Processing(k) == InLoop /\ tr.kind = k

\* The iteration ended normally and the loop went on to the next record.
Continued == pc' = pc + 1 /\ result' = "running" /\ err_client' = err_client

\* No account changed (a freshly created all-zero account is no change).
AccountsSame == \A c \in ClientIDs : Acct(client_account', c) = Acct(client_account, c)

\* The last iteration handled record pc - 1.
prev == transactions[pc - 1]

\* --------------------------------------------------------------------- C1
\* C1: in every reachable state, the abort state included, every account
\* has total = available + held.
C1_TotalIsAvailablePlusHeld ==
    \A c \in DOMAIN client_account :
        client_account[c].total = client_account[c].available + client_account[c].held

\* An aborted run that left funds held behind.
C1_Witness ==
    /\ result = "Err"
    /\ \E c \in DOMAIN client_account :
          client_account[c].held > 0 /\ client_account[c].total > 0

\* --------------------------------------------------------------------- C2
\* C2: a Withdrawal of more than the available funds ends the run with an
\* error naming the client, changes no account and no registry entry, and
\* nothing is processed after it: the state of the abort is final.
C2_InsufficientFundsAborts ==
    /\ [][(Processing("withdrawal")
           /\ tr.amount > Acct(client_account, tr.client_id).available)
          => /\ result' = "Err"
             /\ err_client' = tr.client_id
             /\ AccountsSame
             /\ transaction_under_dispute' = transaction_under_dispute
             /\ pc' = pc]_vars
    /\ [][result = "Err" => UNCHANGED vars]_vars

\* A run aborted after earlier records had moved money.
C2_Witness ==
    /\ result = "Err"
    /\ branch = "insufficient"
    /\ pc > 1
    /\ pc < Len(transactions)
    /\ transactions[pc].kind = "withdrawal"
    /\ \E c \in DOMAIN client_account : client_account[c].total > 0

\* --------------------------------------------------------------------- C3
\* C3: a Withdrawal succeeds exactly when amount <= available; then
\* available and total drop by amount and held and locked stay.
C3_WithdrawalIffAvailable ==
    [][Processing("withdrawal") =>
        LET a == Acct(client_account, tr.client_id)
        IN  IF tr.amount <= a.available
            THEN /\ Continued
                 /\ client_account'[tr.client_id] =
                        [a EXCEPT !.available = a.available - tr.amount,
                                  !.total = a.total - tr.amount]
            ELSE result' = "Err"]_vars

\* A withdrawal of exactly the available funds went through.
C3_Witness ==
    /\ pc > 1
    /\ branch = "withdrawal"
    /\ result = "running"
    /\ client_account[prev.client_id].available = 0
    /\ prev.amount > 0

\* --------------------------------------------------------------------- C4
\* C4: a Deposit succeeds in every state; available and total grow by
\* amount, held, locked and the registry stay.
C4_DepositAlwaysApplies ==
    /\ [](Processing("deposit") => ENABLED Deposit)
    /\ [][Processing("deposit") =>
            LET a == Acct(client_account, tr.client_id)
            IN  /\ Continued
                /\ client_account'[tr.client_id] =
                       [a EXCEPT !.available = a.available + tr.amount,
                                 !.total = a.total + tr.amount]
                /\ transaction_under_dispute' = transaction_under_dispute]_vars

\* A deposit was applied to a locked account.
C4_Witness ==
    /\ pc > 1
    /\ branch = "deposit"
    /\ client_account[prev.client_id].locked
    /\ client_account[prev.client_id].available > 0

\* --------------------------------------------------------------------- C5
\* No two Deposit/Withdrawal records of the stream share a transaction_id.
UniqueMonetaryIds ==
    \A j, k \in 1..Len(transactions) :
        (/\ transactions[j].kind \in MonetaryKinds
         /\ transactions[k].kind \in MonetaryKinds
         /\ transactions[j].transaction_id = transactions[k].transaction_id)
        => j = k

\* C5: a Dispute whose transaction_id is the id of a Deposit/Withdrawal of
\* the stream (taken here in its plainest case, a Deposit/Withdrawal met
\* before the Dispute; ids unique among Deposit/Withdrawal) moves that
\* record's amount from available to held, keeps total, and marks that
\* record as disputed, whatever else precedes the Dispute.
C5_DisputeHoldsReferencedAmount ==
    [][(Processing("dispute") /\ UniqueMonetaryIds) =>
        \A k \in 1..(pc - 1) :
            (/\ transactions[k].kind \in MonetaryKinds
             /\ transactions[k].transaction_id = tr.transaction_id)
            => LET a == Acct(client_account, tr.client_id)
                   amount == transactions[k].amount
               IN  /\ Continued
                   /\ client_account'[tr.client_id] =
                          [a EXCEPT !.available = a.available - amount,
                                    !.held = a.held + amount]
                   /\ k \in transaction_under_dispute']_vars

\* --------------------------------------------------------------------- C6
\* The registry entries that stand for transaction_id id.
Disputed(id) ==
    {k \in transaction_under_dispute : transactions[k].transaction_id = id}

\* C6: a Resolve of a transaction that is marked disputed takes it out of
\* the registry, moves its amount from held back to available and keeps
\* total and locked.
C6_ResolveReleasesHold ==
    [][Processing("resolve") =>
        \A k \in Disputed(tr.transaction_id) :
            LET a == Acct(client_account, tr.client_id)
                amount == transactions[k].amount
            IN  /\ Continued
                /\ transaction_under_dispute' = transaction_under_dispute \ {k}
                /\ client_account'[tr.client_id] =
                       [a EXCEPT !.available = a.available + amount,
                                 !.held = a.held - amount]]_vars

\* Deposit, Dispute, Resolve: the hold on a real deposit was released.
C6_Witness ==
    /\ pc > 2
    /\ branch = "resolve"
    /\ \E k \in 1..(pc - 2) :
          /\ transactions[k].kind = "deposit"
          /\ transactions[k].transaction_id = prev.transaction_id
          /\ transactions[k].client_id = prev.client_id
          /\ k = position(transactions, prev.transaction_id)
    /\ client_account[prev.client_id].held = 0
    /\ client_account[prev.client_id].available > 0
    /\ transaction_under_dispute = {}

\* --------------------------------------------------------------------- C7
\* C7: a Chargeback of a transaction that is marked disputed takes it out
\* of the registry, takes its amount off held and total, locks the account
\* and keeps available.
C7_ChargebackRemovesFundsAndLocks ==
    [][Processing("chargeback") =>
        \A k \in Disputed(tr.transaction_id) :
            LET a == Acct(client_account, tr.client_id)
                amount == transactions[k].amount
            IN  /\ Continued
                /\ transaction_under_dispute' = transaction_under_dispute \ {k}
                /\ client_account'[tr.client_id] =
                       [a EXCEPT !.held = a.held - amount,
                                 !.total = a.total - amount,
                                 !.locked = TRUE]]_vars

\* Deposit, Dispute, Chargeback: the deposit is gone and the account locked.
C7_Witness ==
    /\ pc > 2
    /\ branch = "chargeback"
    /\ \E k \in 1..(pc - 2) :
          /\ transactions[k].kind = "deposit"
          /\ transactions[k].transaction_id = prev.transaction_id
          /\ transactions[k].client_id = prev.client_id
          /\ k = position(transactions, prev.transaction_id)
    /\ client_account[prev.client_id].locked
    /\ client_account[prev.client_id].total = 0
    /\ transaction_under_dispute = {}

\* --------------------------------------------------------------------- C8
\* C8: a Resolve or Chargeback of a transaction that is not marked disputed
\* changes no account and no registry entry, raises no error, and the loop
\* goes on.
C8_NotDisputedIsNoOp ==
    [][((Processing("resolve") \/ Processing("chargeback"))
        /\ Disputed(tr.transaction_id) = {})
       => /\ AccountsSame
          /\ transaction_under_dispute' = transaction_under_dispute
          /\ Continued]_vars

\* A Chargeback of a deposit that was never disputed left the money alone.
C8_Witness ==
    /\ pc > 2
    /\ branch = "chargeback_skip"
    /\ result = "running"
    /\ \E k \in 1..(pc - 2) :
          /\ transactions[k].kind = "deposit"
          /\ transactions[k].transaction_id = prev.transaction_id
          /\ transactions[k].client_id = prev.client_id
    /\ client_account[prev.client_id].total > 0
    /\ ~client_account[prev.client_id].locked

\* --------------------------------------------------------------------- C9
\* C9: a Dispute, Resolve or Chargeback whose transaction_id is the id of
\* no Deposit or Withdrawal of the stream changes available, held, total
\* and locked of no account, raises no error, and the loop goes on.
C9_UnknownReferenceIsNoOp ==
    [][(/\ InLoop
        /\ tr.kind \in LifecycleKinds
        /\ \A k \in 1..Len(transactions) :
              transactions[k].kind \in MonetaryKinds
              => transactions[k].transaction_id # tr.transaction_id)
       => AccountsSame /\ Continued]_vars

\* -------------------------------------------------------------------- C10
\* C10: every registry entry identifies a Deposit or Withdrawal record; an
\* entry is added only by a Dispute that references a Deposit/Withdrawal
\* and removed only by a Resolve or Chargeback with its transaction_id.
C10_RegistryHoldsMonetaryRecords ==
    /\ [](\A k \in transaction_under_dispute :
              transactions[k].kind \in MonetaryKinds)
    /\ [][/\ \A k \in transaction_under_dispute' \ transaction_under_dispute :
                /\ Processing("dispute")
                /\ transactions[k].kind \in MonetaryKinds
                /\ transactions[k].transaction_id = tr.transaction_id
          /\ \A k \in transaction_under_dispute \ transaction_under_dispute' :
                /\ Processing("resolve") \/ Processing("chargeback")
                /\ transactions[k].transaction_id = tr.transaction_id]_vars

\* -------------------------------------------------------------------- C11
\* C11: a Dispute whose transaction_id is on a Deposit/Withdrawal only
\* later in the stream is treated as not found: it changes no balance and
\* marks nothing as disputed.
C11_DisputeBeforeItsTransactionIsNoOp ==
    [][(/\ Processing("dispute")
        /\ \E k \in (pc + 1)..Len(transactions) :
              /\ transactions[k].kind \in MonetaryKinds
              /\ transactions[k].transaction_id = tr.transaction_id
        /\ \A k \in 1..(pc - 1) :
              transactions[k].kind \in MonetaryKinds
              => transactions[k].transaction_id # tr.transaction_id)
       => /\ AccountsSame
          /\ transaction_under_dispute' = transaction_under_dispute]_vars

\* -------------------------------------------------------------------- C12
\* C12: a locked account stays locked for the rest of the run, and an
\* account becomes locked only by a Chargeback, on that account, of a
\* transaction that is marked disputed.
C12_LockedIsPermanentAndOnlyByChargeback ==
    /\ [][\A c \in ClientIDs :
            Acct(client_account, c).locked => Acct(client_account', c).locked]_vars
    /\ [][\A c \in ClientIDs :
            (~Acct(client_account, c).locked /\ Acct(client_account', c).locked)
            => /\ Processing("chargeback")
               /\ tr.client_id = c
               /\ Disputed(tr.transaction_id) # {}]_vars

\* The run ended Ok with an account still locked after a later record of
\* another kind was processed for it.
C12_Witness ==
    /\ result = "Ok"
    /\ \E c \in DOMAIN client_account :
          /\ client_account[c].locked
          /\ transactions[Len(transactions)].client_id = c
          /\ transactions[Len(transactions)].kind # "chargeback"

\* -------------------------------------------------------------------- C13
\* available, held and total of an account.
Balances(a) == <<a.available, a.held, a.total>>

\* C13: whether a record succeeds, and what it does to the balances of its
\* account, is decided by the record, the balances and the registry alone;
\* the locked flag is not among them, so a locked account is treated as
\* the same account unlocked.
C13_LockedAccountTreatedAsUnlocked ==
    [][InLoop =>
        LET a == Acct(client_account, tr.client_id)
            b == Acct(client_account', tr.client_id)
            idx == position(transactions, tr.transaction_id)
            amount == transactions[idx].amount
            marked == idx \in transaction_under_dispute
        IN  CASE tr.kind = "deposit" ->
                    /\ Continued
                    /\ Balances(b) = <<a.available + tr.amount, a.held,
                                       a.total + tr.amount>>
              [] tr.kind = "withdrawal" ->
                    IF tr.amount <= a.available
                    THEN /\ Continued
                         /\ Balances(b) = <<a.available - tr.amount, a.held,
                                            a.total - tr.amount>>
                    ELSE result' = "Err" /\ Balances(b) = Balances(a)
              [] tr.kind = "dispute" ->
                    /\ Continued
                    /\ Balances(b) = <<a.available - amount, a.held + amount,
                                       a.total>>
              [] tr.kind = "resolve" ->
                    /\ Continued
                    /\ Balances(b) = IF marked
                                     THEN <<a.available + amount, a.held - amount,
                                            a.total>>
                                     ELSE Balances(a)
              [] tr.kind = "chargeback" ->
                    /\ Continued
                    /\ Balances(b) = IF marked
                                     THEN <<a.available, a.held - amount,
                                            a.total - amount>>
                                     ELSE Balances(a)]_vars

\* A Dispute was applied to an account that was already locked.
C13_Witness ==
    /\ pc > 1
    /\ branch = "dispute"
    /\ client_account[prev.client_id].locked

\* -------------------------------------------------------------------- C18
\* C18: processing a record changes no account but the one of the client
\* named on the record, for every kind of record.
C18_OnlyTheRecordsAccountChanges ==
    [][InLoop =>
        \A c \in ClientIDs \ {tr.client_id} :
            Acct(client_account', c) = Acct(client_account, c)]_vars

\* A Dispute by one client of a deposit made by another: the depositor's
\* account is as the deposit left it, the disputing client's funds are held.
C18_Witness ==
    /\ pc > 2
    /\ branch = "dispute"
    /\ \E k \in 1..(pc - 2) :
          /\ transactions[k].kind = "deposit"
          /\ k = position(transactions, prev.transaction_id)
          /\ transactions[k].client_id # prev.client_id
          /\ transactions[k].client_id \in DOMAIN client_account
          /\ client_account[transactions[k].client_id].held = 0
          /\ client_account[transactions[k].client_id].available > 0
          /\ client_account[prev.client_id].held = transactions[k].amount

\* -------------------------------------------------------------------- C19
\* C19: a Dispute of a transaction that is already marked disputed changes
\* no balance, so the amount of one transaction is held at most once
\* (taken here for a Dispute by the client who made that transaction).
C19_RepeatedDisputeChangesNothing ==
    [][(/\ Processing("dispute")
        /\ Disputed(tr.transaction_id) # {}
        /\ \A k \in Disputed(tr.transaction_id) :
              transactions[k].client_id = tr.client_id)
       => AccountsSame]_vars

\* -------------------------------------------------------------------- C20
\* C20: a Dispute, Resolve or Chargeback by a client other than the one who
\* made the referenced Deposit/Withdrawal changes no balance of any
\* account (ids unique among Deposit/Withdrawal); held is never negative.
C20_ForeignReferenceChangesNothing ==
    /\ [][(/\ InLoop
           /\ UniqueMonetaryIds
           /\ tr.kind \in LifecycleKinds
           /\ \E k \in 1..(pc - 1) :
                 /\ transactions[k].kind \in MonetaryKinds
                 /\ transactions[k].transaction_id = tr.transaction_id
           /\ \A k \in 1..Len(transactions) :
                 (/\ transactions[k].kind \in MonetaryKinds
                  /\ transactions[k].transaction_id = tr.transaction_id)
                 => transactions[k].client_id # tr.client_id)
          => AccountsSame]_vars
    /\ [](\A c \in DOMAIN client_account : client_account[c].held >= 0)

\* -------------------------------------------------------------------- C14
\* get_accounts has returned (it is called once, after Ok(())).
Fetched == result = "Ok" /\ stage \in {"write", "exit"}

\* The client ids on the records of the stream.
StreamClients == {transactions[k].client_id : k \in 1..Len(transactions)}

\* Every record of client c is a Resolve or Chargeback of a transaction_id
\* that no earlier record disputes: none of them had anything to undo.
OnlyIdleLifecycle(c) ==
    \A k \in 1..Len(transactions) :
        transactions[k].client_id = c
        => /\ transactions[k].kind \in {"resolve", "chargeback"}
           /\ \A j \in 1..(k - 1) :
                 transactions[j].kind = "dispute"
                 => transactions[j].transaction_id # transactions[k].transaction_id

\* C14: after Ok, get_accounts returns exactly one account for each client
\* id on a record of the stream and no other; the account of a client that
\* only sent dispute-lifecycle records that were no-ops is all zero and
\* not locked.
C14_OneAccountPerClient ==
    Fetched =>
        /\ {accounts[i].client_id : i \in 1..Len(accounts)} = StreamClients
        /\ Len(accounts) = Cardinality(StreamClients)
        /\ \A i \in 1..Len(accounts) :
              /\ accounts[i] = client_account[accounts[i].client_id]
              /\ OnlyIdleLifecycle(accounts[i].client_id)
                 => accounts[i] = NewAccount(accounts[i].client_id)

\* Two accounts came back, one with money, one of a client whose only
\* record was a Resolve or Chargeback with nothing to undo.
C14_Witness ==
    /\ Fetched
    /\ Len(accounts) = 2
    /\ \E i, j \in 1..Len(accounts) :
          /\ accounts[i].total > 0
          /\ OnlyIdleLifecycle(accounts[j].client_id)
          /\ accounts[j].total = 0

\* -------------------------------------------------------------------- C15
\* C15: the rows written for a given stream are the same on every run; for
\* the stream Deposit(client 1), Deposit(client 2) they are the row of
\* client 1, then the row of client 2.
C15_RowOrderIsFixed ==
    (/\ exit_status = 0
     /\ Len(transactions) = 2
     /\ transactions[1].kind = "deposit" /\ transactions[1].client_id = 1
     /\ transactions[2].kind = "deposit" /\ transactions[2].client_id = 2)
    => /\ Len(rows) = 2
       /\ rows[1].client = 1
       /\ rows[2].client = 2

\* -------------------------------------------------------------------- C16
\* The input cannot be decoded: the file is unreadable or has a row that is
\* not of the shape of a record.
DecodeFails ==
    ~file.readable \/ \E i \in 1..Len(file.rows) : ~file.rows[i].wellformed

\* Nothing of the engine has run.
EngineUntouched ==
    /\ result = "idle"
    /\ client_account = <<>>
    /\ transaction_under_dispute = {}

\* C16: a run stops at its first failing stage, with the status and the
\* prefix of that stage, and no later stage runs: 1 for a wrong argument
\* count, 2 and 'input error' for a decode error (the engine has processed
\* nothing), 3 and 'process error' for an engine error (no row written),
\* 4 and 'writing error' for a write error; the four statuses differ.
C16_FirstFailingStageDecidesStatus ==
    /\ Cardinality({ExitArgs, ExitInput, ExitProcess, ExitWrite}) = 4
    /\ stage = "exit" =>
        /\ argc # 2 <=> exit_status = 1
        /\ exit_status = 1 =>
              /\ transactions = <<>>
              /\ EngineUntouched
              /\ accounts = <<>> /\ rows = <<>>
        /\ (argc = 2 /\ DecodeFails) <=> exit_status = 2
        /\ exit_status = 2 =>
              /\ message = "input error"
              /\ EngineUntouched
              /\ accounts = <<>> /\ rows = <<>>
        /\ result = "Err" <=> exit_status = 3
        /\ exit_status = 3 =>
              /\ message = "process error"
              /\ accounts = <<>> /\ rows = <<>>
        /\ exit_status = 4 =>
              /\ message = "writing error"
              /\ result = "Ok"
    /\ (argc # 2 \/ DecodeFails) => EngineUntouched
    /\ result = "Err" => accounts = <<>> /\ rows = <<>>

\* A run that ended with status 3 after the engine had applied a record.
C16_Witness ==
    /\ stage = "exit"
    /\ exit_status = 3
    /\ message = "process error"
    /\ pc > 1
    /\ client_account # <<>>
    /\ rows = <<>>

\* -------------------------------------------------------------------- C17
\* C17: a record whose kind is none of the five is rejected by the decode
\* step: the run ends with an input error, the engine never receives the
\* record and no engine state is created or changed because of it.
C17_UnknownKindFailsDecode ==
    (/\ argc = 2
     /\ file.readable
     /\ \E i \in 1..Len(file.rows) : file.rows[i].kind \notin TransactionType)
    => /\ EngineUntouched
       /\ stage = "exit" => exit_status = ExitInput /\ message = "input error"

\* -------------------------------------------------------------------- C21
\* A stream that uses the dispute lifecycle as intended: ids unique among
\* Deposit/Withdrawal, every Dispute, Resolve and Chargeback comes after the
\* Deposit/Withdrawal with its transaction_id and is sent by the same
\* client, and no transaction_id is disputed more than once.
OrderlyStream ==
    /\ UniqueMonetaryIds
    /\ \A k \in 1..Len(transactions) :
          transactions[k].kind \in LifecycleKinds
          => \E j \in 1..(k - 1) :
                /\ transactions[j].kind \in MonetaryKinds
                /\ transactions[j].transaction_id = transactions[k].transaction_id
                /\ transactions[j].client_id = transactions[k].client_id
    /\ \A j, k \in 1..Len(transactions) :
          (/\ transactions[j].kind = "dispute"
           /\ transactions[k].kind = "dispute"
           /\ transactions[j].transaction_id = transactions[k].transaction_id)
          => j = k

\* C21: with amounts >= 0 and ids unique among Deposit/Withdrawal, available
\* of every account is >= 0 in every reachable state (taken here on orderly
\* streams only, which include a Dispute of a Deposit already withdrawn).
C21_AvailableNeverNegative ==
    OrderlyStream =>
        \A c \in DOMAIN client_account : client_account[c].available >= 0

=============================================================================
